---- MODULE Spec2Model ----
(***************************************************************************)
(* Model of src/filter-touchpad-pl.c: the piecewise-linear touchpad        *)
(* pointer acceleration filter (struct touchpad_accelerator, its profile,  *)
(* its speed curve and the operations of its motion_filter_interface).     *)
(*                                                                         *)
(* C doubles are modelled as exact rationals <<n, d>> in lowest terms with *)
(* d > 0; <<0, 0>> is the non-finite result of a division by zero (NaN).   *)
(***************************************************************************)
EXTENDS Integers, Sequences, FiniteSets, TLC

VARIABLES
    life,               \* "Ready" | "Destroyed" | "Aborted"
    dpi,                \* accel->dpi
    threshold,          \* accel->threshold (mm/s)
    accel,              \* accel->accel (unitless)
    velocity,           \* accel->velocity (units/us)
    last_velocity,      \* accel->last_velocity (units/us)
    trackers,           \* accel->trackers
    accel_speed_factor, \* accel->speed_factor
    speed_adjustment,   \* accel->base.speed_adjustment
    calls,              \* number of interface calls made so far
    op,                 \* the last interface call
    time,               \* timestamp (us) handed to the last call
    unaccelerated,      \* raw delta handed to the last filter call
    arg_speed,          \* argument of the last set_speed call
    ret,                \* what the last set_speed call returned
    accel_value,        \* factor computed by the last accelerated call / profile call
    accelerated,        \* accelerator_filter_generic's return value
    result,             \* normalized coordinates returned to the host
    rows,               \* rows of points[][] read by the last profile evaluation(s)
    div_zero,           \* the last profile evaluation(s) divided by zero
    mm_in,              \* profile specification: the physical speed (mm/s) fed in
    speed_in            \* profile specification: that speed in device units/us

vars == <<life, dpi, threshold, accel, velocity, last_velocity, trackers,
          accel_speed_factor, speed_adjustment, calls, op, time, unaccelerated,
          arg_speed, ret, accel_value, accelerated, result, rows, div_zero,
          mm_in, speed_in>>

(***************************************************************************)
(* Bounds of the model                                                     *)
(***************************************************************************)
MaxCalls == 3
MaxHalfMm == 240

(***************************************************************************)
(* double arithmetic                                                       *)
(***************************************************************************)
Abs(x) == IF x < 0 THEN -x ELSE x

RECURSIVE GCD(_, _)
GCD(a, b) == IF b = 0 THEN a ELSE GCD(b, a % b)

NaN == <<0, 0>>

Rat(n, d) ==
    IF d = 0 THEN NaN
    ELSE LET g == GCD(Abs(n), Abs(d))
             s == IF d < 0 THEN -1 ELSE 1
         IN  <<(s * n) \div g, (s * d) \div g>>

R(n) == <<n, 1>>

Zero == R(0)

One == R(1)

IsNaN(a) == a[2] = 0

RAdd(a, b) ==
    IF IsNaN(a) \/ IsNaN(b) THEN NaN
    ELSE Rat(a[1] * b[2] + b[1] * a[2], a[2] * b[2])

RSub(a, b) ==
    IF IsNaN(a) \/ IsNaN(b) THEN NaN
    ELSE Rat(a[1] * b[2] - b[1] * a[2], a[2] * b[2])

RMul(a, b) ==
    IF IsNaN(a) \/ IsNaN(b) THEN NaN
    ELSE Rat(a[1] * b[1], a[2] * b[2])

\* x / 0 is not finite; the only division by zero the filter can make is 0 / 0
RDiv(a, b) ==
    IF IsNaN(a) \/ IsNaN(b) \/ b[1] = 0 THEN NaN
    ELSE Rat(a[1] * b[2], a[2] * b[1])

\* comparisons with NaN are false, as in C
RLt(a, b) == ~IsNaN(a) /\ ~IsNaN(b) /\ a[1] * b[2] < b[1] * a[2]

RGt(a, b) == RLt(b, a)

RLe(a, b) == ~IsNaN(a) /\ ~IsNaN(b) /\ a[1] * b[2] <= b[1] * a[2]

\* a device_float_coords / normalized_coords pair scaled by one factor
Scale(f, c) == <<RMul(f, c[1]), RMul(f, c[2])>>

\* an integer delta as a coordinate pair of doubles
Coords(d) == <<R(d[1]), R(d[2])>>

(***************************************************************************)
(* Collaborators declared in filter.h / filter-private.h                   *)
(***************************************************************************)
\* v_us2s: units/us -> units/s
v_us2s(units_per_us) == RMul(units_per_us, R(1000000))

\* normalize_for_dpi: device coordinates scaled to the 1000 dpi reference
normalize_for_dpi(coords, dpi_) == Scale(Rat(1000, dpi_), coords)

\* length of an integer vector, rounded down
Hypot(x, y) ==
    LET s == x * x + y * y
    IN  CHOOSE n \in 0..(Abs(x) + Abs(y)) : n * n <= s /\ s < (n + 1) * (n + 1)

RECURSIVE SumDeltas(_)
SumDeltas(samples) ==
    IF samples = <<>> THEN <<0, 0>>
    ELSE LET r == SumDeltas(Tail(samples))
         IN  <<Head(samples).delta[1] + r[1], Head(samples).delta[2] + r[2]>>

\* trackers_init: an empty history of the given depth, anchored at time 0
trackers_init(ntrackers) ==
    [ntrackers |-> ntrackers, anchor |-> 0, samples |-> <<>>]

\* trackers_reset: the history is emptied and anchored at `t`
trackers_reset(tr, t) == [tr EXCEPT !.anchor = t, !.samples = <<>>]

\* trackers_feed: one more timestamped delta; the oldest one falls out when
\* the history spans more than ntrackers - 1 deltas
trackers_feed(tr, delta, t) ==
    LET all == Append(tr.samples, [delta |-> delta, time |-> t])
    IN  IF Len(all) > tr.ntrackers - 1
        THEN [tr EXCEPT !.anchor = Head(all).time, !.samples = Tail(all)]
        ELSE [tr EXCEPT !.samples = all]

\* trackers_velocity: distance covered by the retained history over the time
\* it spans, in units/us
trackers_velocity(tr, t) ==
    LET sum == SumDeltas(tr.samples)
    IN  IF tr.samples = <<>> \/ t <= tr.anchor THEN Zero
        ELSE Rat(Hypot(sum[1], sum[2]), t - tr.anchor)

(***************************************************************************)
(* speed_factor: the [-1, 1] speed setting mapped to a constant gain.       *)
(* pow() with the fractional exponent 2.377168 has no rational value: the  *)
(* curve is tabulated, to four decimals, at the settings the model uses.   *)
(***************************************************************************)
speed_factor(s) ==
    CASE s = Rat(-3, 2) -> NaN               \* pow() of a negative base
      [] s = R(-1)      -> Rat(476, 10000)    \* 0.04762636
      [] s = Rat(-1, 2) -> Rat(2311, 10000)   \* 0.23111460
      [] s = R(0)       -> Rat(10009, 10000)  \* 1.00087533
      [] s = Rat(1, 2)  -> Rat(25468, 10000)  \* 2.54683957
      [] s = R(1)       -> Rat(49999, 10000)  \* 4.99986119
      [] s = Rat(3, 2)  -> Rat(84649, 10000)  \* 8.46485568

(***************************************************************************)
(* touchpad_accel_profile                                                  *)
(***************************************************************************)
\* const double points[][2]
points == <<<<R(20), Rat(5, 100)>>, <<R(100), R(1)>>>>

i_max == 1

\* What a read past the end of points[][] can find on the stack: a row
\* <<speed, factor>> of arbitrary doubles.
Garbage == {<<R(0), R(0)>>, <<R(100), R(3)>>}

\* points[row][col]; a row outside the table is an out-of-bounds read
Pt(row, col, g) ==
    IF row \in 0..i_max THEN points[row + 1][col + 1] ELSE g[col + 1]

\* while(i > 0 && points[i][0] > speed_in) i--;
RECURSIVE ProfileSearch(_, _, _)
ProfileSearch(i, speed, g) ==
    IF i > 0 /\ RGt(Pt(i, 0, g), speed) THEN ProfileSearch(i - 1, speed, g) ELSE i

\* touchpad_accel_profile interpolating on the speed itself, not on its
\* distance from the lower control point
touchpad_accel_profile_no_offset(v, dpi_, g) ==
    LET speed == RDiv(RMul(v_us2s(v), Rat(254, 10)), R(dpi_))
    IN  IF RGt(speed, Pt(i_max, 0, g))
        THEN [factor |-> Pt(i_max, 1, g), rows |-> {i_max}, div_zero |-> FALSE]
        ELSE IF RLt(speed, Pt(0, 0, g))
        THEN [factor |-> Pt(0, 1, g), rows |-> {i_max, 0}, div_zero |-> FALSE]
        ELSE LET i == ProfileSearch(i_max, speed, g)
                 divisor == RSub(Pt(i + 1, 0, g), Pt(i, 0, g))
             IN  [factor |->
                      RAdd(Pt(i, 1, g),
                           RDiv(RMul(RSub(Pt(i + 1, 1, g), Pt(i, 1, g)), speed),
                                divisor)),
                  rows |-> {i_max, 0, i, i + 1},
                  div_zero |-> (divisor = Zero)]

\* The profile for a velocity v (units/us) on a device of dpi_, with g what
\* an out-of-bounds read returns. rows: the rows of points[][] it reads.
touchpad_accel_profile(v, dpi_, g) ==
    LET speed == RDiv(RMul(v_us2s(v), Rat(254, 10)), R(dpi_))
    IN  IF RGt(speed, Pt(i_max, 0, g))
        THEN [factor |-> Pt(i_max, 1, g), rows |-> {i_max}, div_zero |-> FALSE]
        ELSE IF RLt(speed, Pt(0, 0, g))
        THEN [factor |-> Pt(0, 1, g), rows |-> {i_max, 0}, div_zero |-> FALSE]
        ELSE LET i == ProfileSearch(i_max, speed, g)
                 divisor == RSub(Pt(i + 1, 0, g), Pt(i, 0, g))
             IN  [factor |->
                      RAdd(Pt(i, 1, g),
                           RDiv(RMul(RSub(Pt(i + 1, 1, g), Pt(i, 1, g)),
                                     RSub(speed, Pt(i, 0, g))),
                                divisor)),
                  rows |-> {i_max, 0, i, i + 1},
                  div_zero |-> (divisor = Zero)]

\* every result the profile can produce for v
ProfileOutcomes(v, dpi_) == {touchpad_accel_profile(v, dpi_, g) : g \in Garbage}

\* calculate_acceleration_simpsons: Simpson's rule over the profile at the
\* current velocity, the previous one and their mean
calculate_acceleration_simpsons(v, last_v, dpi_) ==
    {[factor |-> RDiv(RAdd(RAdd(p1.factor, p2.factor), RMul(R(4), p3.factor)), R(6)),
      rows |-> p1.rows \cup p2.rows \cup p3.rows,
      div_zero |-> (p1.div_zero \/ p2.div_zero \/ p3.div_zero)] :
        <<p1, p2, p3>> \in ProfileOutcomes(v, dpi_)
                           \X ProfileOutcomes(last_v, dpi_)
                           \X ProfileOutcomes(RDiv(RAdd(last_v, v), R(2)), dpi_)}

(***************************************************************************)
(* Inputs the host can hand to the filter                                  *)
(***************************************************************************)
Dpis == {254, 508}

Deltas == {<<0, 0>>, <<3, 4>>, <<-6, -8>>}

\* time (us) between two calls; timestamps never decrease
Dts == {5000, 10000}

Times == {time + dt : dt \in Dts}

\* speed settings a caller may pass, valid and invalid
Prefs == {Rat(-3, 2), R(-1), R(0), R(1), Rat(3, 2)}

NoCoords == <<Zero, Zero>>

(***************************************************************************)
(* create_pointer_accelerator_filter_touchpad_pl: the state it returns     *)
(***************************************************************************)
Init ==
    /\ life = "Ready"
    /\ dpi \in Dpis
    /\ threshold = 130
    /\ accel = Zero                  \* zalloc
    /\ velocity = Zero               \* zalloc
    /\ last_velocity = Zero
    /\ \E use_velocity_averaging \in BOOLEAN :
           trackers = trackers_init(IF use_velocity_averaging THEN 16 ELSE 2)
    /\ accel_speed_factor = Zero     \* zalloc
    /\ speed_adjustment = Zero       \* zalloc
    /\ calls = 0
    /\ op = "create"
    /\ time = 0
    /\ unaccelerated = <<0, 0>>
    /\ arg_speed = Zero
    /\ ret = "none"
    /\ accel_value = Zero
    /\ accelerated = NoCoords
    /\ result = NoCoords
    /\ rows = {}
    /\ div_zero = FALSE
    /\ mm_in = Zero
    /\ speed_in = Zero

\* calculate_acceleration_factor storing the new velocity before the factor
\* is computed from it
calculate_acceleration_factor_store_first(delta, t) ==
    LET fed == trackers_feed(trackers, delta, t)
        v == trackers_velocity(fed, t)
    IN  {[trackers |-> fed,
          last_velocity |-> v,
          accel_factor |-> s.factor,
          rows |-> s.rows,
          div_zero |-> s.div_zero] :
            s \in calculate_acceleration_simpsons(v, v, dpi)}

(***************************************************************************)
(* calculate_acceleration_factor: the tracker and last_velocity it leaves  *)
(* and the factor it returns (every outcome the profile can produce)       *)
(***************************************************************************)
calculate_acceleration_factor(delta, t) ==
    LET fed == trackers_feed(trackers, delta, t)
        v == trackers_velocity(fed, t)
    IN  {[trackers |-> fed,
          last_velocity |-> v,
          accel_factor |-> s.factor,
          rows |-> s.rows,
          div_zero |-> s.div_zero] :
            s \in calculate_acceleration_simpsons(v, last_velocity, dpi)}

\* accelerator_filter_generic: both axes times the one factor
accelerator_filter_generic(delta, t) ==
    {[state |-> o, accelerated |-> Scale(o.accel_factor, Coords(delta))] :
        o \in calculate_acceleration_factor(delta, t)}

\* .filter
accelerator_filter_post_normalized(delta, t) ==
    /\ life = "Ready"
    /\ calls < MaxCalls
    /\ \E g \in accelerator_filter_generic(delta, t) :
        /\ trackers' = g.state.trackers
        /\ last_velocity' = g.state.last_velocity
        /\ accel_value' = g.state.accel_factor
        /\ rows' = g.state.rows
        /\ div_zero' = g.state.div_zero
        /\ accelerated' = g.accelerated
        /\ result' = normalize_for_dpi(g.accelerated, dpi)
    /\ calls' = calls + 1
    /\ op' = "filter"
    /\ time' = t
    /\ unaccelerated' = delta
    /\ UNCHANGED <<life, dpi, threshold, accel, velocity, accel_speed_factor,
                   speed_adjustment, arg_speed, ret, mm_in, speed_in>>

TP_MAGIC_SLOWDOWN == Rat(2968, 10000)

\* touchpad_constant_filter feeding the delta to the velocity trackers
touchpad_constant_filter_tracking(delta, t) ==
    /\ life = "Ready"
    /\ calls < MaxCalls
    /\ LET baseline == Rat(9, 10)
           normalized == normalize_for_dpi(Coords(delta), dpi)
       IN  result' = <<RMul(RMul(baseline, TP_MAGIC_SLOWDOWN), normalized[1]),
                       RMul(RMul(baseline, TP_MAGIC_SLOWDOWN), normalized[2])>>
    /\ trackers' = trackers_feed(trackers, delta, t)
    /\ calls' = calls + 1
    /\ op' = "filter_constant"
    /\ time' = t
    /\ unaccelerated' = delta
    /\ UNCHANGED <<life, dpi, threshold, accel, velocity, last_velocity,
                   accel_speed_factor, speed_adjustment, arg_speed, ret,
                   accel_value, accelerated, rows, div_zero, mm_in, speed_in>>

\* .filter_constant
touchpad_constant_filter(delta, t) ==
    /\ life = "Ready"
    /\ calls < MaxCalls
    /\ LET baseline == Rat(9, 10)
           normalized == normalize_for_dpi(Coords(delta), dpi)
       IN  result' = <<RMul(RMul(baseline, TP_MAGIC_SLOWDOWN), normalized[1]),
                       RMul(RMul(baseline, TP_MAGIC_SLOWDOWN), normalized[2])>>
    /\ calls' = calls + 1
    /\ op' = "filter_constant"
    /\ time' = t
    /\ unaccelerated' = delta
    /\ UNCHANGED <<life, dpi, threshold, accel, velocity, last_velocity, trackers,
                   accel_speed_factor, speed_adjustment, arg_speed, ret,
                   accel_value, accelerated, rows, div_zero, mm_in, speed_in>>

\* touchpad_accelerator_set_speed without its assert()
touchpad_accelerator_set_speed_unchecked(speed) ==
    /\ life = "Ready"
    /\ calls < MaxCalls
    /\ speed_adjustment' = speed
    /\ accel_speed_factor' = speed_factor(speed)
    /\ ret' = "true"
    /\ calls' = calls + 1
    /\ op' = "set_speed"
    /\ arg_speed' = speed
    /\ UNCHANGED <<life, dpi, threshold, accel, velocity, last_velocity, trackers,
                   time, unaccelerated, accel_value, accelerated, result, rows,
                   div_zero, mm_in, speed_in>>

\* .set_speed; a failed assert() aborts the process
touchpad_accelerator_set_speed(speed) ==
    /\ life = "Ready"
    /\ calls < MaxCalls
    /\ IF RLe(R(-1), speed) /\ RLe(speed, R(1))
       THEN /\ speed_adjustment' = speed
            /\ accel_speed_factor' = speed_factor(speed)
            /\ ret' = "true"
            /\ life' = life
       ELSE /\ life' = "Aborted"
            /\ ret' = "abort"
            /\ UNCHANGED <<speed_adjustment, accel_speed_factor>>
    /\ calls' = calls + 1
    /\ op' = "set_speed"
    /\ arg_speed' = speed
    /\ UNCHANGED <<dpi, threshold, accel, velocity, last_velocity, trackers, time,
                   unaccelerated, accel_value, accelerated, result, rows, div_zero,
                   mm_in, speed_in>>

\* touchpad_accelerator_restart clearing the whole filter, as zalloc left it
touchpad_accelerator_restart_clear_all(t) ==
    /\ life = "Ready"
    /\ calls < MaxCalls
    /\ trackers' = trackers_reset(trackers, t)
    /\ last_velocity' = Zero
    /\ accel_speed_factor' = Zero
    /\ calls' = calls + 1
    /\ op' = "restart"
    /\ time' = t
    /\ UNCHANGED <<life, dpi, threshold, accel, velocity, speed_adjustment,
                   unaccelerated, arg_speed, ret, accel_value, accelerated, result,
                   rows, div_zero, mm_in, speed_in>>

\* .restart
touchpad_accelerator_restart(t) ==
    /\ life = "Ready"
    /\ calls < MaxCalls
    /\ trackers' = trackers_reset(trackers, t)
    /\ calls' = calls + 1
    /\ op' = "restart"
    /\ time' = t
    /\ UNCHANGED <<life, dpi, threshold, accel, velocity, last_velocity,
                   accel_speed_factor, speed_adjustment, unaccelerated, arg_speed,
                   ret, accel_value, accelerated, result, rows, div_zero, mm_in,
                   speed_in>>

\* .destroy: the trackers and the filter are freed; no call may follow
touchpad_accelerator_destroy ==
    /\ life = "Ready"
    /\ calls < MaxCalls
    /\ life' = "Destroyed"
    /\ calls' = calls + 1
    /\ op' = "destroy"
    /\ UNCHANGED <<dpi, threshold, accel, velocity, last_velocity, trackers,
                   accel_speed_factor, speed_adjustment, time, unaccelerated,
                   arg_speed, ret, accel_value, accelerated, result, rows, div_zero,
                   mm_in, speed_in>>

Filter == \E delta \in Deltas, t \in Times : accelerator_filter_post_normalized(delta, t)

FilterConstant == \E delta \in Deltas, t \in Times : touchpad_constant_filter(delta, t)

SetSpeed == \E speed \in Prefs : touchpad_accelerator_set_speed(speed)

Restart == \E t \in Times : touchpad_accelerator_restart(t)

Destroy == touchpad_accelerator_destroy

Next == Filter \/ FilterConstant \/ SetSpeed \/ Restart \/ Destroy

Spec == Init /\ [][Next]_vars

(***************************************************************************)
(* The profile on its own: one evaluation of touchpad_accel_profile for a  *)
(* speed drawn in half millimetres per second on a device of some dpi.     *)
(***************************************************************************)
ProfileDpis == {254, 400}

\* mm/s expressed in device units/us: the inverse of the profile's conversion
MmToUnitsPerUs(mm, dpi_) == RDiv(RDiv(RMul(mm, R(dpi_)), Rat(254, 10)), R(1000000))

ProfileInit ==
    /\ life = "Ready"
    /\ dpi \in ProfileDpis
    /\ mm_in \in {Rat(h, 2) : h \in 0..MaxHalfMm}
    /\ speed_in = MmToUnitsPerUs(mm_in, dpi)
    /\ threshold = 130
    /\ accel = Zero
    /\ velocity = Zero
    /\ last_velocity = Zero
    /\ trackers = trackers_init(2)
    /\ accel_speed_factor = Zero
    /\ speed_adjustment = Zero
    /\ calls = 0
    /\ op = "create"
    /\ time = 0
    /\ unaccelerated = <<0, 0>>
    /\ arg_speed = Zero
    /\ ret = "none"
    /\ accel_value = Zero
    /\ accelerated = NoCoords
    /\ result = NoCoords
    /\ rows = {}
    /\ div_zero = FALSE

ProfileCall ==
    /\ op = "create"
    /\ \E p \in ProfileOutcomes(speed_in, dpi) :
        /\ accel_value' = p.factor
        /\ rows' = p.rows
        /\ div_zero' = p.div_zero
    /\ op' = "profile"
    /\ UNCHANGED <<life, dpi, threshold, accel, velocity, last_velocity, trackers,
                   accel_speed_factor, speed_adjustment, calls, time, unaccelerated,
                   arg_speed, ret, accelerated, result, mm_in, speed_in>>

ProfileNext == ProfileCall

ProfileSpec == ProfileInit /\ [][ProfileNext]_vars

(***************************************************************************)
(* Properties                                                              *)
(***************************************************************************)
\* the factors a newly created filter of the same dpi and tracker depth can
\* return for a first delta that arrives `elapsed` us after its anchor
FreshFactors(delta, elapsed) ==
    LET fed == trackers_feed(trackers_init(trackers.ntrackers), delta, elapsed)
        v == trackers_velocity(fed, elapsed)
    IN  {s.factor : s \in calculate_acceleration_simpsons(v, Zero, dpi)}

\* C1: a filter call made right after restart(t) returns the factor a newly
\* created filter returns for that same first delta, whatever calls came
\* before the restart.
C1_RestartThenFilterIsFresh ==
    [][(op = "restart" /\ op' = "filter")
         => accel_value' \in FreshFactors(unaccelerated', time' - time)]_vars

\* C2: once a speed has been set, the gain the accelerated filter applies to
\* the raw delta is the profile factor times the gain of that speed setting.
C2_GainIsFactorTimesSpeedFactor ==
    (op = "filter" /\ accel_speed_factor # Zero)
        => accelerated = Scale(RMul(accel_value, accel_speed_factor),
                               Coords(unaccelerated))

FirstPoint == points[1]

LastPoint == points[Len(points)]

\* C3: a speed at or below the first control point gets exactly the first
\* point's factor, a speed at or above the last control point gets exactly
\* the last point's factor.
C3_ClampAtBoundaries ==
    op = "profile"
        => /\ RLe(mm_in, FirstPoint[1]) => accel_value = FirstPoint[2]
           /\ RLe(LastPoint[1], mm_in) => accel_value = LastPoint[2]

\* C4: in every Ready state, from creation on, the stored speed factor is
\* the speed curve applied to the stored speed setting.
C4_SpeedFactorFromCurve ==
    life = "Ready" => accel_speed_factor = speed_factor(speed_adjustment)

InRange(speed) == RLe(R(-1), speed) /\ RLe(speed, R(1))

\* C5: set_speed with a setting inside [-1, 1] returns true and stores the
\* setting; with a setting outside it does not return success and leaves the
\* stored setting and speed factor as they were.
C5_SetSpeedChecksRange ==
    [][op' = "set_speed"
         => IF InRange(arg_speed')
            THEN ret' = "true" /\ speed_adjustment' = arg_speed' /\ life' = "Ready"
            ELSE /\ ret' # "true"
                 /\ life' = "Aborted"
                 /\ speed_adjustment' = speed_adjustment
                 /\ accel_speed_factor' = accel_speed_factor]_vars

C5_Witness ==
    /\ op = "set_speed"
    /\ arg_speed = Rat(3, 2)
    /\ ret = "abort"
    /\ life = "Aborted"
    /\ accel_speed_factor = speed_factor(R(1))

\* C6: the constant filter returns the normalized delta with both axes
\* scaled by 0.9 x 0.2968 = 0.26712, whatever the history, and leaves the
\* trackers, last_velocity and the speed factor as they were.
C6_ConstantFilterFixedGain ==
    [][op' = "filter_constant"
         => /\ result' = Scale(Rat(26712, 100000),
                               normalize_for_dpi(Coords(unaccelerated'), dpi))
            /\ trackers' = trackers
            /\ last_velocity' = last_velocity
            /\ accel_speed_factor' = accel_speed_factor]_vars

C6_Witness ==
    /\ op = "filter_constant"
    /\ unaccelerated = <<3, 4>>
    /\ last_velocity # Zero
    /\ accel_speed_factor = speed_factor(R(1))
    /\ result[1] # Zero

\* C7: a speed strictly between the first and the last control point speed
\* gets the linear interpolation between the adjacent control points that
\* bracket it; 60 mm/s gets 0.525.
C7_Interpolation ==
    (op = "profile" /\ RLt(FirstPoint[1], mm_in) /\ RLt(mm_in, LastPoint[1]))
        => /\ \E i \in 1..(Len(points) - 1) :
                /\ RLe(points[i][1], mm_in)
                /\ RLt(mm_in, points[i + 1][1])
                /\ accel_value =
                       RAdd(points[i][2],
                            RDiv(RMul(RSub(points[i + 1][2], points[i][2]),
                                      RSub(mm_in, points[i][1])),
                                 RSub(points[i + 1][1], points[i][1])))
           /\ mm_in = R(60) => accel_value = Rat(525, 1000)

C7_Witness ==
    op = "profile" /\ dpi = 400 /\ mm_in = R(60) /\ accel_value = Rat(21, 40)

\* C8: no call changes dpi or the threshold/accel tunables, and the speed
\* factor changes in a set_speed call only.
C8_ConfigurationPreserved ==
    [][/\ dpi' = dpi
       /\ threshold' = threshold
       /\ accel' = accel
       /\ accel_speed_factor' # accel_speed_factor => op' = "set_speed"]_vars

C8_Witness ==
    /\ op = "restart"
    /\ calls = 3
    /\ last_velocity # Zero
    /\ accel_speed_factor = speed_factor(R(-1))

\* C9: an accelerated filter call feeds the tracker, computes its factor from
\* the tracker's velocity for this event and the velocity the previous call
\* stored (0 for the first call), stores this event's velocity and multiplies
\* both axes by that one factor.
C9_FilterStepOrder ==
    [][op' = "filter"
         => LET v == trackers_velocity(trackers', time')
                previous == IF calls = 0 THEN Zero ELSE last_velocity
            IN  /\ trackers' = trackers_feed(trackers, unaccelerated', time')
                /\ accel_value' \in
                       {s.factor : s \in calculate_acceleration_simpsons(v, previous, dpi)}
                /\ last_velocity' = v
                /\ accelerated' = <<RMul(accel_value', R(unaccelerated'[1])),
                                    RMul(accel_value', R(unaccelerated'[2]))>>]_vars

C9_Witness ==
    /\ op = "filter"
    /\ calls = 3
    /\ Len(trackers.samples) = 3
    /\ last_velocity = Rat(1, 3000)
    /\ accelerated[1] # Zero

\* C10: every row of the control point table the profile reads is a row of
\* the table, and the interpolation never divides by zero.
C10_TableReadsInBounds ==
    op = "profile" => (rows \subseteq 0..i_max /\ ~div_zero)

====
